---- MODULE Spec2Model ----
(***************************************************************************)
(* Model of the adaptive query rewriter (query_rewriter.py) and of the     *)
(* multi-query retrieval fusion (vector_store.py).                         *)
(*                                                                         *)
(* Python strings are TLA+ strings; the string methods the code uses       *)
(* (strip, lower, split, count, in) are computed character by character.   *)
(* A result dictionary is a record; a key that the code leaves out of the  *)
(* dictionary ("metadata", "error") is a has_ flag set to FALSE.           *)
(* The completion service, the embedding service and the vector backend    *)
(* are inputs: each call either fails or returns a value of a small set.   *)
(***************************************************************************)
EXTENDS Integers, Sequences, FiniteSets, TLC

VARIABLES
    strategy,     \* QueryRewriter.strategy (its value string)
    max_queries,  \* QueryRewriter.max_queries
    query_cache,  \* QueryRewriter._query_cache: entries in insertion order
    last,         \* what the latest rewrite call was given and what it did
    ncalls,       \* number of rewrite calls made so far
    inserted,     \* history: the keys of the results rewrite computed and stored
    dd,           \* a call of _deduplicate_queries: input, embeddings, output
    fu,           \* a call of search_multiple: queries, backend, outcome
    cx,           \* calls of _determine_query_complexity: query and answer
    peer,         \* a second QueryRewriter of the process and its own cache
    th            \* the rewrite calls in progress, one per thread

vars ==
    <<strategy, max_queries, query_cache, last, ncalls, inserted, dd, fu, cx, peer, th>>

----------------------------------------------------------------------------
\* Python str operations

Char(s, i) == SubSeq(s, i, i)

Whitespace == {" ", "\n", "\t"}

\* str.strip(chars): drop the leading and trailing characters that are in cs
RECURSIVE first_kept(_, _, _)
first_kept(s, cs, i) ==
    IF i > Len(s) THEN i
    ELSE IF Char(s, i) \in cs THEN first_kept(s, cs, i + 1) ELSE i

RECURSIVE last_kept(_, _, _)
last_kept(s, cs, i) ==
    IF i < 1 THEN i
    ELSE IF Char(s, i) \in cs THEN last_kept(s, cs, i - 1) ELSE i

strip_chars(s, cs) ==
    LET lo == first_kept(s, cs, 1)
    IN  IF lo > Len(s) THEN "" ELSE SubSeq(s, lo, last_kept(s, cs, Len(s)))

strip(s) == strip_chars(s, Whitespace)

\* str.lower() on the letters the model's strings use
LowerOf ==
    [c \in {"A", "B", "C", "D", "E", "F", "G", "H", "I", "J", "K", "L", "M", "N",
            "O", "P", "Q", "R", "S", "T", "U", "V", "W", "X", "Y", "Z"} |->
        CASE c = "A" -> "a" [] c = "B" -> "b" [] c = "C" -> "c" [] c = "D" -> "d"
          [] c = "E" -> "e" [] c = "F" -> "f" [] c = "G" -> "g" [] c = "H" -> "h"
          [] c = "I" -> "i" [] c = "J" -> "j" [] c = "K" -> "k" [] c = "L" -> "l"
          [] c = "M" -> "m" [] c = "N" -> "n" [] c = "O" -> "o" [] c = "P" -> "p"
          [] c = "Q" -> "q" [] c = "R" -> "r" [] c = "S" -> "s" [] c = "T" -> "t"
          [] c = "U" -> "u" [] c = "V" -> "v" [] c = "W" -> "w" [] c = "X" -> "x"
          [] c = "Y" -> "y" [] c = "Z" -> "z"]

lower_char(c) == IF c \in DOMAIN LowerOf THEN LowerOf[c] ELSE c

RECURSIVE lower(_)
lower(s) ==
    IF Len(s) = 0 THEN ""
    ELSE IF Len(s) = 1 THEN lower_char(s)
    ELSE LET half == Len(s) \div 2
         IN  lower(SubSeq(s, 1, half)) \o lower(SubSeq(s, half + 1, Len(s)))

\* str.split('\n'): the pieces between consecutive line breaks
split_lines(s) ==
    LET breaks == {i \in 1..Len(s) : Char(s, i) = "\n"}
        nth(k) == IF k = 0 THEN 0
                  ELSE IF k > Cardinality(breaks) THEN Len(s) + 1
                  ELSE CHOOSE i \in breaks : Cardinality({j \in breaks : j < i}) = k - 1
    IN  [k \in 1..(Cardinality(breaks) + 1) |-> SubSeq(s, nth(k - 1) + 1, nth(k) - 1)]

\* len(s.split(" ")): one more than the number of blanks
word_count_blanks(s) == Cardinality({i \in 1..Len(s) : Char(s, i) = " "}) + 1

\* len(str.split()): the number of maximal runs of non-whitespace
word_count(s) ==
    Cardinality({i \in 1..Len(s) :
        /\ Char(s, i) \notin Whitespace
        /\ (i = 1 \/ Char(s, i - 1) \in Whitespace)})

\* sub in s
contains(s, sub) ==
    \E i \in 1..(Len(s) - Len(sub) + 1) : SubSeq(s, i, i + Len(sub) - 1) = sub

\* s.count(c) for a single character c
count_char(s, c) == Cardinality({i \in 1..Len(s) : Char(s, i) = c})

\* a line or a variant of this many characters or fewer is dropped
MinQueryChars == 10

\* list[:n]
Take(seq, n) == SubSeq(seq, 1, IF n < Len(seq) THEN n ELSE Len(seq))

\* [q.strip() for q in lines if q.strip() and len(q.strip()) > 10]
RECURSIVE strip_and_keep_long(_)
strip_and_keep_long(lines) ==
    IF lines = <<>> THEN <<>>
    ELSE LET q == strip(Head(lines))
         IN  (IF Len(q) > MinQueryChars THEN <<q>> ELSE <<>>)
                 \o strip_and_keep_long(Tail(lines))

Range(seq) == {seq[i] : i \in 1..Len(seq)}

Max2(a, b) == IF a > b THEN a ELSE b
Min2(a, b) == IF a < b THEN a ELSE b

----------------------------------------------------------------------------
\* Result dictionaries

NoMetadata ==
    [num_variations |-> 0, num_sub_queries |-> 0, was_decomposed |-> FALSE,
     refined |-> FALSE, strategies_applied |-> <<>>, complexity |-> "",
     deduplicated |-> FALSE, removed_duplicates |-> 0]

\* a slip in the except branches: the fallback list left empty
ErrorResultEmpty(query, s, e) ==
    [original |-> query, rewritten |-> <<>>, strategy |-> s,
     has_metadata |-> FALSE, metadata |-> NoMetadata,
     has_error |-> TRUE, error |-> e]

\* {"original": query, "rewritten": [query], "strategy": s, "error": str(e)}
ErrorResult(query, s, e) ==
    [original |-> query, rewritten |-> <<query>>, strategy |-> s,
     has_metadata |-> FALSE, metadata |-> NoMetadata,
     has_error |-> TRUE, error |-> e]

OkResult(query, rewritten, s, metadata) ==
    [original |-> query, rewritten |-> rewritten, strategy |-> s,
     has_metadata |-> TRUE, metadata |-> metadata,
     has_error |-> FALSE, error |-> ""]

NoResult == ErrorResult("", "none", "")

----------------------------------------------------------------------------
\* QueryRewriter: cache key, classifier

\* str(context) if context else "": a context is held as its str() rendering;
\* None and the empty mapping are the falsy ones
FalsyContexts == {"None", "{}"}
context_str(context) == IF context \in FalsyContexts THEN "" ELSE context

\* md5 of the combined string; the digest is taken to be collision-free, so the
\* key is the combined string itself
_get_cache_key(query, context, strat, maxq) ==
    query \o ":" \o strat \o ":" \o ToString(maxq) \o ":" \o context_str(context)

ComparisonWords == {"comparar", "diferencia", "versus", "vs", "mejor"}

has_multiple_questions(query) ==
    \/ count_char(query, "?") > 1
    \/ contains(lower(query), " y ")
    \/ contains(lower(query), " o ")

\* the comparison test on the query as typed, without lower()
has_comparisons_cased(query) == \E w \in ComparisonWords : contains(query, w)

has_comparisons(query) == \E w \in ComparisonWords : contains(lower(query), w)

_determine_query_complexity(query) ==
    IF word_count(query) <= 5 /\ ~has_multiple_questions(query) THEN "simple"
    ELSE IF word_count(query) > 15 \/ has_multiple_questions(query) \/ has_comparisons(query)
         THEN "complex"
         ELSE "medium"

\* the adjustment without the upper limit of 5 for complex queries
_adjust_max_queries_uncapped(query, maxq) ==
    LET complexity == _determine_query_complexity(query)
    IN  IF complexity = "simple" THEN Min2(2, maxq)
        ELSE IF complexity = "complex" THEN Max2(3, maxq)
        ELSE maxq

_adjust_max_queries(query, maxq) ==
    LET complexity == _determine_query_complexity(query)
    IN  IF complexity = "simple" THEN Min2(2, maxq)
        ELSE IF complexity = "complex" THEN Min2(5, Max2(3, maxq))
        ELSE maxq

----------------------------------------------------------------------------
\* External services. A completion call either raises (ok = FALSE, text = str(e))
\* or returns response.choices[0].message.content (ok = TRUE). An embedding call
\* either raises or returns one vector per input string.

Completion(ok, text) == [ok |-> ok, text |-> text]
NotCalled == Completion(FALSE, "")

----------------------------------------------------------------------------
\* QueryRewriter: the three base strategies

\* the expansion with the original query put after the variations
_expand_query_original_last(query, maxq, completion) ==
    IF ~completion.ok THEN ErrorResult(query, "expansion", completion.text)
    ELSE LET expanded_queries ==
                 Take(strip_and_keep_long(split_lines(strip(completion.text))), maxq)
         IN  OkResult(query, expanded_queries \o <<query>>, "expansion",
                      [NoMetadata EXCEPT !.num_variations = Len(expanded_queries)])

_expand_query(query, maxq, completion) ==
    IF ~completion.ok THEN ErrorResult(query, "expansion", completion.text)
    ELSE LET expanded_queries ==
                 Take(strip_and_keep_long(split_lines(strip(completion.text))), maxq)
         IN  OkResult(query, <<query>> \o expanded_queries, "expansion",
                      [NoMetadata EXCEPT !.num_variations = Len(expanded_queries)])

_decompose_query(query, maxq, completion) ==
    IF ~completion.ok THEN ErrorResult(query, "decomposition", completion.text)
    ELSE LET sub_queries ==
                 Take(strip_and_keep_long(split_lines(strip(completion.text))), maxq)
         IN  OkResult(query,
                      IF Len(sub_queries) > 1 THEN sub_queries ELSE <<query>>,
                      "decomposition",
                      [NoMetadata EXCEPT !.num_sub_queries = Len(sub_queries),
                                         !.was_decomposed = Len(sub_queries) > 1])

_refine_query(query, completion) ==
    IF ~completion.ok THEN ErrorResult(query, "refinement", completion.text)
    ELSE LET refined_query ==
                 strip_chars(strip_chars(strip(completion.text), {"\""}), {"'"})
         IN  OkResult(query,
                      IF refined_query # "" /\ refined_query # query
                      THEN <<refined_query>> ELSE <<query>>,
                      "refinement",
                      [NoMetadata EXCEPT !.refined = refined_query # query])

----------------------------------------------------------------------------
\* QueryRewriter: semantic deduplication

RECURSIVE Dot(_, _)
Dot(a, b) == IF a = <<>> THEN 0 ELSE Head(a) * Head(b) + Dot(Tail(a), Tail(b))

\* the threshold 0.95 as the fraction SimNum / SimDen
SimNum == 19
SimDen == 20

\* dot / (norm_i * norm_j) > 0.95, and 0 when a norm is 0, in integers:
\* both norms non-zero, dot > 0 and dot^2 / (|a|^2 |b|^2) > 0.95^2
TooSimilar(a, b) ==
    /\ Dot(a, a) # 0 /\ Dot(b, b) # 0
    /\ Dot(a, b) > 0
    /\ SimDen * SimDen * Dot(a, b) * Dot(a, b) > SimNum * SimNum * Dot(a, a) * Dot(b, b)

\* the pairs when a failure of the embedding call is taken for "all similar"
_calculate_semantic_similarity_all(queries, embedding) ==
    IF Len(queries) <= 1 THEN {}
    ELSE IF ~embedding.ok
         THEN {p \in (1..Len(queries)) \X (1..Len(queries)) : p[1] < p[2]}
         ELSE {p \in (1..Len(queries)) \X (1..Len(queries)) :
                  p[1] < p[2] /\ TooSimilar(embedding.vecs[p[1]], embedding.vecs[p[2]])}

\* the (i, j) of the similar pairs; the code's list order and the score are not
\* used by its caller. An embedding failure is caught and gives no pair.
_calculate_semantic_similarity(queries, embedding) ==
    IF Len(queries) <= 1 THEN {}
    ELSE IF ~embedding.ok THEN {}
    ELSE {p \in (1..Len(queries)) \X (1..Len(queries)) :
             p[1] < p[2] /\ TooSimilar(embedding.vecs[p[1]], embedding.vecs[p[2]])}

\* the first loop without lower(): "Find Cats" and "find cats" both stay
RECURSIVE unique_exact_cased(_, _)
unique_exact_cased(queries, seen) ==
    IF queries = <<>> THEN <<>>
    ELSE LET q == Head(queries)
             q_key == strip(q)
         IN  IF q_key \notin seen
             THEN <<q>> \o unique_exact_cased(Tail(queries), seen \cup {q_key})
             ELSE unique_exact_cased(Tail(queries), seen)

\* the first loop: first occurrence of each q.lower().strip(), in order
RECURSIVE unique_exact(_, _)
unique_exact(queries, seen) ==
    IF queries = <<>> THEN <<>>
    ELSE LET q == Head(queries)
             q_lower == strip(lower(q))
         IN  IF q_lower \notin seen
             THEN <<q>> \o unique_exact(Tail(queries), seen \cup {q_lower})
             ELSE unique_exact(Tail(queries), seen)

\* the comparison of line 115 turned round: the shorter one is marked
pair_loser_shorter(unique_queries, i, j) ==
    IF Len(unique_queries[i]) < Len(unique_queries[j]) THEN i ELSE j

\* the index marked for removal for one similar pair (i, j)
pair_loser(unique_queries, i, j) ==
    IF Len(unique_queries[i]) > Len(unique_queries[j]) THEN i ELSE j

\* [q for idx, q in enumerate(unique_queries) if idx not in to_remove]
RECURSIVE drop_indices(_, _, _)
drop_indices(seq, to_remove, idx) ==
    IF idx > Len(seq) THEN <<>>
    ELSE (IF idx \in to_remove THEN <<>> ELSE <<seq[idx]>>)
             \o drop_indices(seq, to_remove, idx + 1)

\* the marking loop when a pair with a member that is already marked is passed
\* over, the pairs taken in the order (i, j) in which they were found
RECURSIVE mark_unmarked(_, _, _)
mark_unmarked(unique_queries, pairs, to_remove) ==
    IF pairs = {} THEN to_remove
    ELSE LET p == CHOOSE x \in pairs :
                      \A y \in pairs : x[1] < y[1] \/ (x[1] = y[1] /\ x[2] <= y[2])
         IN  mark_unmarked(unique_queries, pairs \ {p},
                           IF p[1] \in to_remove \/ p[2] \in to_remove THEN to_remove
                           ELSE to_remove \cup {pair_loser(unique_queries, p[1], p[2])})

_deduplicate_queries_unmarked(queries, embedding) ==
    IF Len(queries) <= 1 THEN [out |-> queries, called |-> FALSE]
    ELSE LET unique_queries == unique_exact(queries, {})
         IN  IF Len(unique_queries) <= 1
             THEN [out |-> unique_queries, called |-> FALSE]
             ELSE LET similar_pairs ==
                          _calculate_semantic_similarity(unique_queries, embedding)
                  IN  [out |-> drop_indices(unique_queries,
                                            mark_unmarked(unique_queries, similar_pairs, {}), 1),
                       called |-> TRUE]

\* out: the returned list; called: whether the embedding service was called
_deduplicate_queries(queries, embedding) ==
    IF Len(queries) <= 1 THEN [out |-> queries, called |-> FALSE]
    ELSE LET unique_queries == unique_exact(queries, {})
         IN  IF Len(unique_queries) <= 1
             THEN [out |-> unique_queries, called |-> FALSE]
             ELSE LET similar_pairs ==
                          _calculate_semantic_similarity(unique_queries, embedding)
                      to_remove ==
                          {pair_loser(unique_queries, p[1], p[2]) : p \in similar_pairs}
                  IN  [out |-> IF similar_pairs = {} THEN unique_queries
                               ELSE drop_indices(unique_queries, to_remove, 1),
                       called |-> TRUE]

----------------------------------------------------------------------------
\* QueryRewriter: the hybrid strategy.  svc holds the outcome each service
\* call would have: svc.refine, svc.expand, svc.decompose, svc.embed.
\* The value is [raised, result, calls, invoked, max_queries]: whether an
\* exception leaves the method, the returned dictionary, the completion calls
\* issued in order, for each of them the method called, the query it was given
\* and self.max_queries as it was during the call, and self.max_queries when
\* the method ends.

Invocation(name, query, maxq) == [strategy |-> name, query |-> query, max_queries |-> maxq]

strategy_names(invoked) == [i \in 1..Len(invoked) |-> invoked[i].strategy]

\* [q for q in rewritten if q not in [a, b]]
RECURSIVE not_in_pair(_, _, _)
not_in_pair(rewritten, a, b) ==
    IF rewritten = <<>> THEN <<>>
    ELSE (IF Head(rewritten) \in {a, b} THEN <<>> ELSE <<Head(rewritten)>>)
             \o not_in_pair(Tail(rewritten), a, b)

\* the closing loop: unseen (stripped, lower-cased) entries longer than 10
\* characters, stopping once max_queries of them are collected
RECURSIVE hybrid_unique(_, _, _, _)
hybrid_unique(all_queries, seen, unique_queries, maxq) ==
    IF all_queries = <<>> THEN unique_queries
    ELSE LET q == Head(all_queries)
             q_clean == lower(strip(q))
         IN  IF q_clean \notin seen /\ Len(strip(q)) > MinQueryChars
             THEN LET appended == Append(unique_queries, strip(q))
                  IN  IF Len(appended) >= maxq THEN appended
                      ELSE hybrid_unique(Tail(all_queries), seen \cup {q_clean},
                                         appended, maxq)
             ELSE hybrid_unique(Tail(all_queries), seen, unique_queries, maxq)

HybridReturn(query, all_queries, strategies_applied, complexity, invoked, maxq) ==
    LET unique_queries == hybrid_unique(all_queries, {}, <<>>, maxq)
    IN  [raised |-> FALSE,
         result |-> OkResult(query, unique_queries, "hybrid",
                        [NoMetadata EXCEPT !.num_variations = Len(unique_queries),
                                           !.strategies_applied = strategies_applied,
                                           !.complexity = complexity]),
         calls |-> strategy_names(invoked),
         invoked |-> invoked,
         max_queries |-> maxq]

\* decomposed_result["metadata"] on a dictionary without that key: KeyError
HybridRaise(invoked, maxq) ==
    [raised |-> TRUE, result |-> NoResult, calls |-> strategy_names(invoked),
     invoked |-> invoked, max_queries |-> maxq]

\* the simple branch without its else part: the refinement and nothing more
hybrid_simple_refine_only(query, maxq, svc) ==
    HybridReturn(query, <<query, _refine_query(query, svc.refine).rewritten[1]>>,
                 <<"refinement", "expansion">>, "simple",
                 <<Invocation("refinement", query, maxq)>>, maxq)

\* the simple branch with the test of line 444 left out: always expand
hybrid_simple_expanding(query, maxq, svc) ==
    HybridReturn(query, Take(_expand_query(query, 2, svc.expand).rewritten, 2),
                 <<"refinement", "expansion">>, "simple",
                 <<Invocation("refinement", query, maxq),
                   Invocation("expansion", query, 2)>>, maxq)

hybrid_simple(query, maxq, svc) ==
    LET refined_query == _refine_query(query, svc.refine).rewritten[1]
    IN  IF refined_query # query
        THEN HybridReturn(query, <<query, refined_query>>,
                          <<"refinement", "expansion">>, "simple",
                          <<Invocation("refinement", query, maxq)>>, maxq)
        ELSE HybridReturn(query, Take(_expand_query(query, 2, svc.expand).rewritten, 2),
                          <<"refinement", "expansion">>, "simple",
                          <<Invocation("refinement", query, maxq),
                            Invocation("expansion", query, 2)>>, maxq)

\* the complex branch without the decomposition: refine and expand at once
hybrid_complex_undecomposed(query, maxq, svc) ==
    LET refined_query == _refine_query(query, svc.refine).rewritten[1]
        expanded_result == _expand_query(refined_query, Max2(2, maxq - 1), svc.expand)
    IN  HybridReturn(query,
            <<query, refined_query>>
                \o not_in_pair(expanded_result.rewritten, query, refined_query),
            <<"refinement", "expansion">>, "complex",
            <<Invocation("refinement", query, maxq),
              Invocation("expansion", refined_query, Max2(2, maxq - 1))>>, maxq)

hybrid_complex(query, maxq, svc) ==
    LET decomposed_result == _decompose_query(query, maxq, svc.decompose)
    IN  IF ~decomposed_result.has_metadata
        THEN HybridRaise(<<Invocation("decomposition", query, maxq)>>, maxq)
        ELSE IF decomposed_result.metadata.was_decomposed
        THEN HybridReturn(query, decomposed_result.rewritten, <<"decomposition">>,
                          "complex", <<Invocation("decomposition", query, maxq)>>, maxq)
        ELSE LET refined_query == _refine_query(query, svc.refine).rewritten[1]
                 expanded_result ==
                     _expand_query(refined_query, Max2(2, maxq - 1), svc.expand)
             IN  HybridReturn(query,
                     <<query, refined_query>>
                         \o not_in_pair(expanded_result.rewritten, query, refined_query),
                     <<"refinement", "expansion">>, "complex",
                     <<Invocation("decomposition", query, maxq),
                       Invocation("refinement", query, maxq),
                       Invocation("expansion", refined_query, Max2(2, maxq - 1))>>,
                     maxq)

\* len(query) * 0.7 is a product of doubles: 0.7 is held as a double a little
\* under 0.7 and the product is rounded to the nearest double.  Where 0.7 n is
\* not a whole number the rounding cannot change the comparison with a length.
\* Where it is one (n a multiple of 10) the product is that whole number, but
\* for the n below, where it is the double just under it (all such n < 650).
RoundsBelow == {90, 170, 180, 330, 340, 350, 360}

\* len(refined_query) > len(query) * 0.7 for the two lengths, query_len < 650
exceeds_70_percent(refined_len, query_len) ==
    \/ 10 * refined_len > 7 * query_len
    \/ 10 * refined_len = 7 * query_len /\ query_len \in RoundsBelow

hybrid_medium(query, maxq, svc) ==
    LET refined_query == _refine_query(query, svc.refine).rewritten[1]
    IN  IF refined_query # query /\ exceeds_70_percent(Len(refined_query), Len(query))
        THEN LET expanded_result ==
                     _expand_query(refined_query, Max2(2, maxq - 1), svc.expand)
             IN  HybridReturn(query,
                     <<query, refined_query>>
                         \o not_in_pair(expanded_result.rewritten, query, refined_query),
                     <<"refinement", "expansion">>, "medium",
                     <<Invocation("refinement", query, maxq),
                       Invocation("expansion", refined_query, Max2(2, maxq - 1))>>,
                     maxq)
        ELSE HybridReturn(query,
                     _expand_query(query, Max2(2, maxq), svc.expand).rewritten,
                     <<"refinement", "expansion">>, "medium",
                     <<Invocation("refinement", query, maxq),
                       Invocation("expansion", query, Max2(2, maxq))>>, maxq)

_hybrid_rewrite(query, maxq, svc) ==
    LET complexity == _determine_query_complexity(query)
    IN  IF complexity = "simple" THEN hybrid_simple(query, maxq, svc)
        ELSE IF complexity = "complex" THEN hybrid_complex(query, maxq, svc)
        ELSE hybrid_medium(query, maxq, svc)

----------------------------------------------------------------------------
\* QueryRewriter: the cache (a dict, which keeps insertion order) and rewrite

CacheLimit == 100

cache_keys(cache) == [i \in 1..Len(cache) |-> cache[i].key]

cache_has(cache, key) == \E i \in 1..Len(cache) : cache[i].key = key

cache_get(cache, key) == cache[CHOOSE i \in 1..Len(cache) : cache[i].key = key].value

\* the store of line 207 made only for a result without an error field
cache_set_successful(cache, key, value) ==
    IF value.has_error THEN cache
    ELSE IF cache_has(cache, key)
    THEN [i \in 1..Len(cache) |->
             IF cache[i].key = key THEN [key |-> key, value |-> value] ELSE cache[i]]
    ELSE Append(cache, [key |-> key, value |-> value])

\* self._query_cache[cache_key] = result: a present key keeps its place
cache_set(cache, key, value) ==
    IF cache_has(cache, key)
    THEN [i \in 1..Len(cache) |->
             IF cache[i].key = key THEN [key |-> key, value |-> value] ELSE cache[i]]
    ELSE Append(cache, [key |-> key, value |-> value])

\* a slip in the eviction: popitem(), which drops the newest entry
cache_evict_newest(cache) ==
    IF Len(cache) > CacheLimit THEN SubSeq(cache, 1, Len(cache) - 1) ELSE cache

\* if len(cache) > 100: cache.pop(next(iter(cache)))
cache_evict(cache) == IF Len(cache) > CacheLimit THEN Tail(cache) ELSE cache

\* the strategy dispatch of rewrite
generate(query, strat, maxq, svc) ==
    IF strat = "expansion"
    THEN [raised |-> FALSE, result |-> _expand_query(query, maxq, svc.expand),
          calls |-> <<"expansion">>,
          invoked |-> <<Invocation("expansion", query, maxq)>>, max_queries |-> maxq]
    ELSE IF strat = "decomposition"
    THEN [raised |-> FALSE, result |-> _decompose_query(query, maxq, svc.decompose),
          calls |-> <<"decomposition">>,
          invoked |-> <<Invocation("decomposition", query, maxq)>>, max_queries |-> maxq]
    ELSE IF strat = "refinement"
    THEN [raised |-> FALSE, result |-> _refine_query(query, svc.refine),
          calls |-> <<"refinement">>,
          invoked |-> <<Invocation("refinement", query, maxq)>>, max_queries |-> maxq]
    ELSE _hybrid_rewrite(query, maxq, svc)

\* "Apply semantic deduplication" in rewrite
\* lines 198-204 left out: the result goes to the cache as generated
apply_deduplication_skipped(result, embedding) == [result |-> result, calls |-> <<>>]

apply_deduplication(result, embedding) ==
    IF Len(result.rewritten) > 1
    THEN LET d == _deduplicate_queries(result.rewritten, embedding)
             removed == Len(result.rewritten) - Len(d.out)
         IN  [result |->
                  IF removed > 0
                  THEN [result EXCEPT !.rewritten = d.out,
                                      !.metadata.deduplicated = TRUE,
                                      !.metadata.removed_duplicates = removed]
                  ELSE [result EXCEPT !.rewritten = d.out],
              calls |-> IF d.called THEN <<"embedding">> ELSE <<>>]
    ELSE [result |-> result, calls |-> <<>>]

\* rewrite with the restoring assignment after the return statement instead
\* of in a finally clause: an exception leaves max_queries as adjusted
rewrite_unrestored(query, context, strat, maxq, cache, svc) ==
    LET cache_key == _get_cache_key(query, context, strat, maxq)
    IN  IF cache_has(cache, cache_key)
        THEN [raised |-> FALSE, result |-> cache_get(cache, cache_key), hit |-> TRUE,
              calls |-> <<>>, invoked |-> <<>>, cache |-> cache, max_queries |-> maxq]
        ELSE LET original_max == maxq
                 adaptive_max == _adjust_max_queries(query, maxq)
                 g == generate(query, strat, adaptive_max, svc)
             IN  IF g.raised
                 THEN [raised |-> TRUE, result |-> NoResult, hit |-> FALSE,
                       calls |-> g.calls, invoked |-> g.invoked, cache |-> cache,
                       max_queries |-> g.max_queries]
                 ELSE LET d == apply_deduplication(g.result, svc.embed)
                      IN  [raised |-> FALSE, result |-> d.result, hit |-> FALSE,
                           calls |-> g.calls \o d.calls, invoked |-> g.invoked,
                           cache |-> cache_evict(cache_set(cache, cache_key, d.result)),
                           max_queries |-> original_max]

\* rewrite(query, context) on a rewriter whose fields are strat, maxq, cache.
\* The value holds the outcome (raised or returned result, cache hit or not, the
\* service calls issued) and the rewriter's cache and max_queries after the call.
rewrite(query, context, strat, maxq, cache, svc) ==
    LET cache_key == _get_cache_key(query, context, strat, maxq)
    IN  IF cache_has(cache, cache_key)
        THEN [raised |-> FALSE, result |-> cache_get(cache, cache_key), hit |-> TRUE,
              calls |-> <<>>, invoked |-> <<>>, cache |-> cache, max_queries |-> maxq]
        ELSE LET original_max == maxq
                 adaptive_max == _adjust_max_queries(query, maxq)
                 g == generate(query, strat, adaptive_max, svc)
             IN  IF g.raised
                 THEN [raised |-> TRUE, result |-> NoResult, hit |-> FALSE,
                       calls |-> g.calls, invoked |-> g.invoked, cache |-> cache,
                       max_queries |-> original_max]
                 ELSE LET d == apply_deduplication(g.result, svc.embed)
                      IN  [raised |-> FALSE, result |-> d.result, hit |-> FALSE,
                           calls |-> g.calls \o d.calls, invoked |-> g.invoked,
                           cache |-> cache_evict(cache_set(cache, cache_key, d.result)),
                           max_queries |-> original_max]

----------------------------------------------------------------------------
\* The inputs of the model

QShort == "What is AI"
QSimple == "Que cubre el plan"
QMedium == "que cubre el plan de salud hoy"
QComplex == "plan norte y plan sur"
Queries == {QShort, QSimple, QMedium, QComplex}

Contexts == {"None", "{'conversation_history': 'hola'}"}

Strategies == {"expansion", "decomposition", "refinement", "hybrid"}

\* max_queries as the constructor leaves it, and the values create_rewriter
\* is given
DefaultMaxQueries == 3
MaxQueriesValues == {2, DefaultMaxQueries, 6}

\* completion texts: a list of lines, and a single refined query
TextTwo == "cobertura hospital plan norte\ndeducible copago plan sur"
TextMany ==
    "cobertura plan\nCobertura Hospital Plan Norte \ncorto\n"
        \o "cobertura hospital plan norte\ndeducible copago plan sur\n"
        \o "servicios preventivos plan\nlimites cobertura plan sur\n"
TextShort == "query 1\nquery 2\nquery 3"
TextQuoted == "\"cobertura hospital plan de salud\""
TextBoundary == "plan de salud hoy dia"
ErrText == "timeout"

Failure == Completion(FALSE, ErrText)

\* the outcomes of a completion call that answers with a list, for this query
ListOutcomes(query) ==
    {Failure, Completion(TRUE, query), Completion(TRUE, TextTwo),
     Completion(TRUE, TextMany), Completion(TRUE, TextShort)}

\* the outcomes of a refinement completion call, for this query
RefineOutcomes(query) ==
    {Failure, Completion(TRUE, query), Completion(TRUE, TextQuoted),
     Completion(TRUE, TextBoundary)}

\* embeddings.create: one vector per input, here for up to NumVectors inputs
Directions ==
    << <<1, 0>>, <<1, 1>>, <<0, 1>>, <<-1, 1>>, <<-1, 0>>, <<-1, -1>>, <<0, -1>>, <<1, -1>> >>
NumVectors == Len(Directions)
EmbedFailure == [ok |-> FALSE, vecs |-> <<>>]
EmbedDistinct == [ok |-> TRUE, vecs |-> Directions]
EmbedSame == [ok |-> TRUE, vecs |-> [i \in 1..NumVectors |-> <<1, 0>>]]
EmbedOutcomes == {EmbedFailure, EmbedDistinct, EmbedSame}

NoEmbed == [ok |-> FALSE, vecs |-> <<>>]

\* the services as one rewrite call finds them; a service that the strategy
\* (for hybrid: the branch of this query) never calls is left out
Services(strat, query) ==
    [refine : IF strat \in {"refinement", "hybrid"}
              THEN RefineOutcomes(query) ELSE {NotCalled},
     expand : IF strat \in {"expansion", "hybrid"}
              THEN ListOutcomes(query) ELSE {NotCalled},
     decompose : IF \/ strat = "decomposition"
                    \/ strat = "hybrid" /\ _determine_query_complexity(query) = "complex"
                 THEN ListOutcomes(query) ELSE {NotCalled},
     embed : IF strat = "refinement" THEN {NoEmbed} ELSE EmbedOutcomes]

\* svc with the outcomes of the calls that were not issued blanked
Issued(svc, calls) ==
    [refine |-> IF "refinement" \in Range(calls) THEN svc.refine ELSE NotCalled,
     expand |-> IF "expansion" \in Range(calls) THEN svc.expand ELSE NotCalled,
     decompose |-> IF "decomposition" \in Range(calls) THEN svc.decompose ELSE NotCalled,
     embed |-> IF "embedding" \in Range(calls) THEN svc.embed ELSE NoEmbed]

NoServices ==
    [refine |-> NotCalled, expand |-> NotCalled, decompose |-> NotCalled,
     embed |-> NoEmbed]

----------------------------------------------------------------------------
\* The rewriter as a state machine

NoCall ==
    [query |-> "", context |-> "None", requested |-> 0, done |-> FALSE,
     raised |-> FALSE, hit |-> FALSE, result |-> NoResult, calls |-> <<>>,
     invoked |-> <<>>, svc |-> NoServices]

DedupIdle ==
    [input |-> <<>>, embedding |-> NoEmbed, output |-> <<>>, called |-> FALSE,
     done |-> FALSE]
FuseIdle ==
    [has_store |-> FALSE, deduplicate |-> TRUE, backend |-> <<>>, raised |-> FALSE,
     results |-> <<>>, searched |-> 0, done |-> FALSE]
\* a thread that is not inside rewrite; pc is the statement it is about to
\* run, the other fields are the locals of the call; budget is self.max_queries
\* as the strategy of the call read it
Threads == {1, 2}
IdleThread ==
    [pc |-> "idle", query |-> "", cache_key |-> "", original_max |-> 0,
     budget |-> 0, result |-> NoResult, oldest |-> "", returned |-> FALSE,
     raised |-> FALSE, error |-> ""]
NoThreads == [t \in Threads |-> IdleThread]

\* no second rewriter yet; ncalls: the rewrite calls made on it
NoPeer ==
    [created |-> FALSE, strategy |-> "", max_queries |-> 0, query_cache |-> <<>>,
     ncalls |-> 0]

\* what a query text is made of: words, question marks, " y " or " o " in any
\* case, a comparison word in any case
TextOf(nwords, marks, conjunction, comparison) ==
    [nwords |-> nwords, marks |-> marks, conjunction |-> conjunction,
     comparison |-> comparison]
NoText == TextOf(0, 0, FALSE, FALSE)

\* text: how the query was built; first_*: the first call, count: calls so far
ClassifyIdle ==
    [query |-> "", text |-> NoText, complexity |-> "", first_query |-> "",
     first_text |-> NoText, first_complexity |-> "", count |-> 0]

\* QueryRewriter(strategy) followed by create_rewriter's max_queries assignment
Init ==
    /\ strategy \in Strategies
    /\ max_queries \in MaxQueriesValues
    /\ query_cache = <<>>
    /\ last = NoCall
    /\ ncalls = 0
    /\ inserted = <<>>
    /\ dd = DedupIdle
    /\ fu = FuseIdle
    /\ cx = ClassifyIdle
    /\ peer = NoPeer
    /\ th = NoThreads

\* one call rewrite(query, context), the services answering as svc says
RewriteCall(query, context, svc) ==
    /\ \E r \in {rewrite(query, context, strategy, max_queries, query_cache, svc)} :
           /\ query_cache' = r.cache
           /\ max_queries' = r.max_queries
           /\ last' = [query |-> query, context |-> context, requested |-> max_queries,
                       done |-> TRUE, raised |-> r.raised, hit |-> r.hit,
                       result |-> r.result, calls |-> r.calls,
                       invoked |-> r.invoked, svc |-> Issued(svc, r.calls)]
           /\ inserted' =
                  IF r.hit \/ r.raised THEN inserted
                  ELSE Append(inserted,
                              _get_cache_key(query, context, strategy, max_queries))
    /\ ncalls' = ncalls + 1
    /\ UNCHANGED <<strategy, dd, fu, cx, peer, th>>

\* Spec: a call on a new rewriter, with every query and every service outcome
MaxCalls == 1

Rewrite ==
    /\ ncalls < MaxCalls
    /\ \E query \in Queries :
           \E svc \in Services(strategy, query) : RewriteCall(query, "None", svc)

Next == Rewrite

Spec == Init /\ [][Next]_vars

----------------------------------------------------------------------------
\* SpecSeq: a sequence of calls on one rewriter.  The first WarmUp calls ask
\* WarmUp distinct queries, which fills the cache up to its limit; the calls
\* after them ask one of the two oldest queries again or a new one, with either context,
\* every service answering or every service failing.

WarmUp == 99
MaxSeqCalls == 3

FillQuery(i) == "consulta numero " \o ToString(i)

SvcOk ==
    [refine |-> Completion(TRUE, TextQuoted), expand |-> Completion(TRUE, TextTwo),
     decompose |-> Completion(TRUE, TextTwo), embed |-> EmbedDistinct]
SvcFail ==
    [refine |-> Failure, expand |-> Failure, decompose |-> Failure,
     embed |-> EmbedFailure]

SeqQueries == {FillQuery(1), FillQuery(2), QComplex}

InitSeq == Init /\ max_queries = DefaultMaxQueries

WarmUpRewrite ==
    /\ ncalls < WarmUp
    /\ RewriteCall(FillQuery(ncalls + 1), "None", SvcOk)

SeqRewrite ==
    /\ ncalls >= WarmUp
    /\ ncalls < WarmUp + MaxSeqCalls
    /\ \E query \in SeqQueries, context \in Contexts, svc \in {SvcOk, SvcFail} :
           RewriteCall(query, context, svc)

NextSeq == WarmUpRewrite \/ SeqRewrite

SpecSeq == InitSeq /\ [][NextSeq]_vars

----------------------------------------------------------------------------
\* VectorStore: search and search_multiple.  A hit is [content, score]; the
\* metadata of a hit plays no part in the fusion and is left out.  The answer
\* of similarity_search_with_score for one query is [ok, hits]: ok = FALSE is
\* an exception of the backend.

\* search with the exception of the backend swallowed: no results instead
search_swallow(has_store, answer) ==
    IF ~has_store THEN [raised |-> FALSE, results |-> <<>>, called |-> FALSE]
    ELSE IF ~answer.ok THEN [raised |-> FALSE, results |-> <<>>, called |-> TRUE]
    ELSE [raised |-> FALSE, results |-> answer.hits, called |-> TRUE]

\* value: [raised, results, called]; called: whether the backend was asked
search(has_store, answer) ==
    IF ~has_store THEN [raised |-> FALSE, results |-> <<>>, called |-> FALSE]
    ELSE IF ~answer.ok THEN [raised |-> TRUE, results |-> <<>>, called |-> TRUE]
    ELSE [raised |-> FALSE, results |-> answer.hits, called |-> TRUE]

\* the inner loop without the seen_contents test: every result is appended
accumulate_all(results, all_results, seen_contents, deduplicate) ==
    [all_results |-> all_results \o results, seen_contents |-> seen_contents]

\* the inner loop of search_multiple over the results of one query
RECURSIVE accumulate(_, _, _, _)
accumulate(results, all_results, seen_contents, deduplicate) ==
    IF results = <<>> THEN [all_results |-> all_results, seen_contents |-> seen_contents]
    ELSE LET result == Head(results)
             content == result.content
         IN  IF deduplicate
             THEN IF content \notin seen_contents
                  THEN accumulate(Tail(results), Append(all_results, result),
                                  seen_contents \cup {content}, deduplicate)
                  ELSE accumulate(Tail(results), all_results, seen_contents, deduplicate)
             ELSE accumulate(Tail(results), Append(all_results, result),
                             seen_contents, deduplicate)

\* no sort: the hits stay in the order of accumulation
sort_by_score_skipped(all_results) == all_results

\* list.sort(key=score, reverse=True): descending, equal scores keep their order
RECURSIVE sort_by_score(_)
sort_by_score(all_results) ==
    IF all_results = <<>> THEN <<>>
    ELSE LET x == Head(all_results)
             rest == sort_by_score(Tail(all_results))
             above == Cardinality({i \in 1..Len(rest) : rest[i].score > x.score})
         IN  SubSeq(rest, 1, above) \o <<x>> \o SubSeq(rest, above + 1, Len(rest))

\* the outer loop of search_multiple from query number n on; an exception of
\* search leaves the loop and the method
RECURSIVE search_loop(_, _, _, _, _, _, _)
search_loop(has_store, backend, deduplicate, n, all_results, seen_contents, searched) ==
    IF n > Len(backend)
    THEN [raised |-> FALSE, results |-> sort_by_score(all_results), searched |-> searched]
    ELSE LET found == search(has_store, backend[n])
             asked == IF found.called THEN searched + 1 ELSE searched
         IN  IF found.raised
             THEN [raised |-> TRUE, results |-> <<>>, searched |-> asked]
             ELSE LET acc == accumulate(found.results, all_results, seen_contents,
                                        deduplicate)
                  IN  search_loop(has_store, backend, deduplicate, n + 1,
                                  acc.all_results, acc.seen_contents, asked)

\* backend[n] is the backend's answer to the n-th query of the list
search_multiple(has_store, backend, deduplicate) ==
    search_loop(has_store, backend, deduplicate, 1, <<>>, {}, 0)

\* SpecFuse: one search_multiple call, for every list of at most MaxVariants
\* queries, every answer of the backend of at most MaxHits hits per query, with
\* and without a loaded index, with and without deduplication
MaxVariants == 2
MaxHits == 2

Hit(content, score) == [content |-> content, score |-> score]
Hits == {Hit("doc a", 2), Hit("doc a", 5), Hit("doc b", 2)}

SeqsUpTo(S, n) == UNION {[1..k -> S] : k \in 0..n}

BackendFailure == [ok |-> FALSE, hits |-> <<>>]
BackendAnswers == {BackendFailure} \cup {[ok |-> TRUE, hits |-> h] : h \in SeqsUpTo(Hits, MaxHits)}

InitFuse ==
    /\ strategy = "hybrid"
    /\ max_queries = DefaultMaxQueries
    /\ query_cache = <<>>
    /\ last = NoCall
    /\ ncalls = 0
    /\ inserted = <<>>
    /\ dd = DedupIdle
    /\ cx = ClassifyIdle
    /\ peer = NoPeer
    /\ th = NoThreads
    /\ \E has_store \in BOOLEAN, deduplicate \in BOOLEAN :
           \E backend \in SeqsUpTo(BackendAnswers, MaxVariants) :
               fu = [FuseIdle EXCEPT !.has_store = has_store,
                                     !.deduplicate = deduplicate,
                                     !.backend = backend]

SearchMultiple ==
    /\ ~fu.done
    /\ \E r \in {search_multiple(fu.has_store, fu.backend, fu.deduplicate)} :
           fu' = [fu EXCEPT !.raised = r.raised, !.results = r.results,
                            !.searched = r.searched, !.done = TRUE]
    /\ UNCHANGED <<strategy, max_queries, query_cache, last, ncalls, inserted, dd, cx, peer, th>>

NextFuse == SearchMultiple

SpecFuse == InitFuse /\ [][NextFuse]_vars

----------------------------------------------------------------------------
\* SpecDedup: one _deduplicate_queries call, for every list of at most
\* MaxDedupLen queries and every answer of the embedding service: a failure, or
\* one vector for each query it is given

MaxDedupLen == 3

DedupQueries == {"find cats", "Find Cats ", "find dogs", "find all cats"}

\* with <<1, 0, 0, 0, 0>>: cosine 0.970, 0.894, exactly 0.95, and a zero norm
DedupVectors ==
    {<<1, 0, 0, 0, 0>>, <<4, 1, 0, 0, 0>>, <<2, 1, 0, 0, 0>>, <<19, 5, 3, 2, 1>>,
     <<0, 0, 0, 0, 0>>}

InitDedup ==
    /\ strategy = "hybrid"
    /\ max_queries = DefaultMaxQueries
    /\ query_cache = <<>>
    /\ last = NoCall
    /\ ncalls = 0
    /\ inserted = <<>>
    /\ fu = FuseIdle
    /\ cx = ClassifyIdle
    /\ peer = NoPeer
    /\ th = NoThreads
    /\ \E input \in SeqsUpTo(DedupQueries, MaxDedupLen) :
           \E embedding \in {EmbedFailure} \cup
                            {[ok |-> TRUE, vecs |-> v] : v \in [1..Len(input) -> DedupVectors]} :
               dd = [DedupIdle EXCEPT !.input = input, !.embedding = embedding]

Deduplicate ==
    /\ ~dd.done
    /\ \E r \in {_deduplicate_queries(dd.input, dd.embedding)} :
           dd' = [dd EXCEPT !.output = r.out, !.called = r.called, !.done = TRUE]
    /\ UNCHANGED <<strategy, max_queries, query_cache, last, ncalls, inserted, fu, cx, peer, th>>

NextDedup == Deduplicate

SpecDedup == InitDedup /\ [][NextDedup]_vars

----------------------------------------------------------------------------
\* SpecClassify: calls of _determine_query_complexity.  The first call is
\* given a query of up to MaxWords filler words followed by one of the endings;
\* the calls after it ask the same query again or another one.

MaxWords == 16
MaxClassify == 3

RECURSIVE Filler(_)
Filler(n) == IF n = 0 THEN "" ELSE IF n = 1 THEN "plan" ELSE "plan " \o Filler(n - 1)

Ending(suffix, text) == [suffix |-> suffix, text |-> text]

Endings ==
    {Ending("", TextOf(0, 0, FALSE, FALSE)),
     Ending(" que?", TextOf(1, 1, FALSE, FALSE)),
     Ending(" que? cual?", TextOf(2, 2, FALSE, FALSE)),
     Ending(" y mas", TextOf(2, 0, TRUE, FALSE)),
     Ending(" Y mas", TextOf(2, 0, TRUE, FALSE)),
     Ending(" o mas", TextOf(2, 0, TRUE, FALSE)),
     Ending(" hoy mas", TextOf(2, 0, FALSE, FALSE)),
     Ending("\tmas  ", TextOf(1, 0, FALSE, FALSE)),
     Ending(" vs otro", TextOf(2, 0, FALSE, TRUE)),
     Ending(" Mejor", TextOf(1, 0, FALSE, TRUE)),
     Ending(" que diferencia?", TextOf(2, 1, FALSE, TRUE))}

BuiltQuery(n, e) ==
    [query |-> Filler(n) \o e.suffix,
     text |-> [e.text EXCEPT !.nwords = n + e.text.nwords]]

OtherQuery == [query |-> QMedium, text |-> TextOf(7, 0, FALSE, FALSE)]

InitClassify ==
    /\ strategy \in Strategies
    /\ max_queries = DefaultMaxQueries
    /\ query_cache = <<>>
    /\ last = NoCall
    /\ ncalls = 0
    /\ inserted = <<>>
    /\ dd = DedupIdle
    /\ fu = FuseIdle
    /\ cx = ClassifyIdle
    /\ peer = NoPeer
    /\ th = NoThreads

Classify ==
    /\ cx.count = 0
    /\ \E n \in 0..MaxWords, e \in Endings :
           \E q \in {BuiltQuery(n, e)} :
               \E complexity \in {_determine_query_complexity(q.query)} :
                   cx' = [query |-> q.query, text |-> q.text, complexity |-> complexity,
                          first_query |-> q.query, first_text |-> q.text,
                          first_complexity |-> complexity, count |-> 1]
    /\ UNCHANGED <<strategy, max_queries, query_cache, last, ncalls, inserted, dd, fu, peer, th>>

Reclassify ==
    /\ cx.count >= 1
    /\ cx.count < MaxClassify
    /\ \E q \in {[query |-> cx.first_query, text |-> cx.first_text], OtherQuery} :
           cx' = [cx EXCEPT !.query = q.query,
                            !.text = q.text,
                            !.complexity = _determine_query_complexity(q.query),
                            !.count = cx.count + 1]
    /\ UNCHANGED <<strategy, max_queries, query_cache, last, ncalls, inserted, dd, fu, peer, th>>

NextClassify == Classify \/ Reclassify

SpecClassify == InitClassify /\ [][NextClassify]_vars

----------------------------------------------------------------------------
\* SpecPeer: two rewriters in one process.  The first is called up to
\* MaxFirstCalls times, then create_rewriter makes a second one, which is
\* called up to MaxPeerCalls times.

MaxFirstCalls == 1
MaxPeerCalls == 1

PeerQueries == {QSimple, QMedium}

FirstRewrite ==
    /\ ~peer.created
    /\ ncalls < MaxFirstCalls
    /\ \E query \in PeerQueries, context \in Contexts, svc \in {SvcOk, SvcFail} :
           RewriteCall(query, context, svc)

\* create_rewriter(strategy, max_queries): QueryRewriter.__init__ gives the
\* new object a cache of its own, empty
CreatePeer ==
    /\ ~peer.created
    /\ \E strat \in Strategies, maxq \in MaxQueriesValues :
           peer' = [created |-> TRUE, strategy |-> strat, max_queries |-> maxq,
                    query_cache |-> <<>>, ncalls |-> 0]
    /\ UNCHANGED <<strategy, max_queries, query_cache, last, ncalls, inserted, dd, fu, cx, th>>

\* rewrite(query, context) on the second rewriter
PeerRewrite ==
    /\ peer.created
    /\ peer.ncalls < MaxPeerCalls
    /\ \E query \in PeerQueries, context \in Contexts, svc \in {SvcOk, SvcFail} :
           \E r \in {rewrite(query, context, peer.strategy, peer.max_queries,
                             peer.query_cache, svc)} :
               /\ peer' = [peer EXCEPT !.query_cache = r.cache,
                                       !.max_queries = r.max_queries,
                                       !.ncalls = peer.ncalls + 1]
               /\ last' = [query |-> query, context |-> context,
                           requested |-> peer.max_queries,
                           done |-> TRUE, raised |-> r.raised, hit |-> r.hit,
                           result |-> r.result, calls |-> r.calls,
                           invoked |-> r.invoked, svc |-> Issued(svc, r.calls)]
    /\ UNCHANGED <<strategy, max_queries, query_cache, ncalls, inserted, dd, fu, cx, th>>

NextPeer == FirstRewrite \/ CreatePeer \/ PeerRewrite

SpecPeer == InitSeq /\ [][NextPeer]_vars

----------------------------------------------------------------------------
\* SpecRace: two threads call rewrite on one rewriter.  The rewriter has
\* first served WarmUp calls one after the other; then each thread makes one
\* call, and the threads are switched between the statements of rewrite that
\* read or write the rewriter's fields.  The code holds no lock.

RaceQueries == {FillQuery(1), QSimple, QComplex}

\* dict.pop(key) on a key that is present
cache_remove(cache, key) == SelectSeq(cache, LAMBDA e : e.key # key)

Quiet == \A t \in Threads : th[t].pc \in {"idle", "done"}

RaceWarmUp ==
    /\ \A t \in Threads : th[t].pc = "idle"
    /\ WarmUpRewrite

\* line 172: cache_key = self._get_cache_key(query, context)
Begin(t) ==
    /\ ncalls >= WarmUp
    /\ th[t].pc = "idle"
    /\ \E query \in RaceQueries :
           th' = [th EXCEPT ![t] =
                     [IdleThread EXCEPT
                          !.pc = "check", !.query = query,
                          !.cache_key = _get_cache_key(query, "None", strategy, max_queries)]]
    /\ UNCHANGED <<strategy, max_queries, query_cache, last, ncalls, inserted, dd, fu, cx, peer>>

\* line 173: if cache_key in self._query_cache
Check(t) ==
    /\ th[t].pc = "check"
    /\ th' = [th EXCEPT ![t].pc =
                 IF cache_has(query_cache, th[t].cache_key) THEN "fetch" ELSE "adjust"]
    /\ UNCHANGED <<strategy, max_queries, query_cache, last, ncalls, inserted, dd, fu, cx, peer>>

\* line 175: return self._query_cache[cache_key]; KeyError if the key is gone
Fetch(t) ==
    /\ th[t].pc = "fetch"
    /\ th' = [th EXCEPT ![t] =
                 IF cache_has(query_cache, th[t].cache_key)
                 THEN [th[t] EXCEPT !.pc = "done", !.returned = TRUE,
                                    !.result = cache_get(query_cache, th[t].cache_key)]
                 ELSE [th[t] EXCEPT !.pc = "done", !.raised = TRUE,
                                    !.error = "KeyError at line 175"]]
    /\ UNCHANGED <<strategy, max_queries, query_cache, last, ncalls, inserted, dd, fu, cx, peer>>

\* lines 180-184: original_max, adaptive_max, self.max_queries = adaptive_max
Adjust(t) ==
    /\ th[t].pc = "adjust"
    /\ th' = [th EXCEPT ![t].pc = "generate", ![t].original_max = max_queries]
    /\ max_queries' = _adjust_max_queries(th[t].query, max_queries)
    /\ UNCHANGED <<strategy, query_cache, last, ncalls, inserted, dd, fu, cx, peer>>

\* lines 186-204: the strategy and the deduplication, every service answering
Generate(t) ==
    /\ th[t].pc = "generate"
    /\ \E g \in {generate(th[t].query, strategy, max_queries, SvcOk)} :
           /\ max_queries' = g.max_queries
           /\ th' = [th EXCEPT ![t] =
                         IF g.raised
                         THEN [th[t] EXCEPT !.pc = "restore", !.raised = TRUE,
                                            !.budget = max_queries,
                                            !.error = "KeyError at line 461"]
                         ELSE [th[t] EXCEPT
                                   !.pc = "store",
                                   !.budget = max_queries,
                                   !.result = apply_deduplication(g.result, SvcOk.embed).result]]
    /\ UNCHANGED <<strategy, query_cache, last, ncalls, inserted, dd, fu, cx, peer>>

\* line 207: self._query_cache[cache_key] = result
Store(t) ==
    /\ th[t].pc = "store"
    /\ query_cache' = cache_set(query_cache, th[t].cache_key, th[t].result)
    /\ inserted' = IF cache_has(query_cache, th[t].cache_key) THEN inserted
                   ELSE Append(inserted, th[t].cache_key)
    /\ th' = [th EXCEPT ![t].pc = "test"]
    /\ UNCHANGED <<strategy, max_queries, last, ncalls, dd, fu, cx, peer>>

\* line 210: if len(self._query_cache) > 100
TestSize(t) ==
    /\ th[t].pc = "test"
    /\ th' = [th EXCEPT ![t] =
                 IF Len(query_cache) > CacheLimit
                 THEN [th[t] EXCEPT !.pc = "oldest"]
                 ELSE [th[t] EXCEPT !.pc = "restore", !.returned = TRUE]]
    /\ UNCHANGED <<strategy, max_queries, query_cache, last, ncalls, inserted, dd, fu, cx, peer>>

\* line 212, the argument: next(iter(self._query_cache))
Oldest(t) ==
    /\ th[t].pc = "oldest"
    /\ query_cache # <<>>
    /\ th' = [th EXCEPT ![t].pc = "pop", ![t].oldest = query_cache[1].key]
    /\ UNCHANGED <<strategy, max_queries, query_cache, last, ncalls, inserted, dd, fu, cx, peer>>

\* line 212, the call: self._query_cache.pop(key); KeyError if the key is gone
Pop(t) ==
    /\ th[t].pc = "pop"
    /\ IF cache_has(query_cache, th[t].oldest)
       THEN /\ query_cache' = cache_remove(query_cache, th[t].oldest)
            /\ th' = [th EXCEPT ![t].pc = "restore", ![t].returned = TRUE]
       ELSE /\ query_cache' = query_cache
            /\ th' = [th EXCEPT ![t].pc = "restore", ![t].raised = TRUE,
                                ![t].error = "KeyError at line 212"]
    /\ UNCHANGED <<strategy, max_queries, last, ncalls, inserted, dd, fu, cx, peer>>

\* lines 215-217: finally: self.max_queries = original_max
Restore(t) ==
    /\ th[t].pc = "restore"
    /\ max_queries' = th[t].original_max
    /\ th' = [th EXCEPT ![t].pc = "done"]
    /\ UNCHANGED <<strategy, query_cache, last, ncalls, inserted, dd, fu, cx, peer>>

NextRace ==
    \/ RaceWarmUp
    \/ \E t \in Threads :
           \/ Begin(t) \/ Check(t) \/ Fetch(t) \/ Adjust(t) \/ Generate(t)
           \/ Store(t) \/ TestSize(t) \/ Oldest(t) \/ Pop(t) \/ Restore(t)

SpecRace == InitSeq /\ [][NextRace]_vars

----------------------------------------------------------------------------
\* SpecMedium: one call on a hybrid rewriter with a query of medium
\* complexity, of 30 or of 90 characters, the refinement call answering with
\* a text just under, at and just over 70% of the length of each

QLong ==
    "que servicios preventivos cubre el plan de salud familiar para consulta de especialista ya"

TextBelow == "plan de salud hoy ya"
TextAbove == "plan de salud hoy dias"
TextBelowLong == "servicios preventivos del plan de salud para consulta especial"
TextAtLong == "servicios preventivos del plan de salud para consultas especial"
TextAboveLong == "servicios preventivos del plan de salud para consulta especiales"

MediumQueries == {QMedium, QLong}

MediumRefineOutcomes(query) ==
    {Failure, Completion(TRUE, query)}
        \cup {Completion(TRUE, t) : t \in {TextBelow, TextBoundary, TextAbove,
                                          TextBelowLong, TextAtLong, TextAboveLong}}

MediumServices(query) ==
    [refine : MediumRefineOutcomes(query),
     expand : {Failure, Completion(TRUE, TextTwo), Completion(TRUE, TextMany)},
     decompose : {NotCalled},
     embed : {EmbedFailure, EmbedDistinct}]

MaxMediumCalls == 1

InitMedium == Init /\ strategy = "hybrid"

MediumRewrite ==
    /\ ncalls < MaxMediumCalls
    /\ \E query \in MediumQueries :
           \E svc \in MediumServices(query) : RewriteCall(query, "None", svc)

NextMedium == MediumRewrite

SpecMedium == InitMedium /\ [][NextMedium]_vars

----------------------------------------------------------------------------
\* SpecKnob: up to MaxKnobCalls calls on one rewriter of any strategy and any
\* max_queries, with a simple or a complex query, every service answering or
\* every service failing: calls that adjust max_queries and return, that
\* adjust it and raise, and that return from the cache

MaxKnobCalls == 2

KnobQueries == {QSimple, QComplex}

KnobRewrite ==
    /\ ncalls < MaxKnobCalls
    /\ \E query \in KnobQueries, svc \in {SvcOk, SvcFail} :
           RewriteCall(query, "None", svc)

NextKnob == KnobRewrite

SpecKnob == Init /\ [][NextKnob]_vars

----------------------------------------------------------------------------
\* Properties of rewrite

CompletionNames == {"refinement", "expansion", "decomposition"}
BaseStrategies == {"expansion", "decomposition", "refinement"}

OutcomeOf(svc, name) ==
    IF name = "refinement" THEN svc.refine
    ELSE IF name = "expansion" THEN svc.expand
    ELSE svc.decompose

\* the completion calls the latest rewrite call issued
IssuedCompletions(l) == Range(l.calls) \cap CompletionNames

SomeCompletionFailed(l) == \E n \in IssuedCompletions(l) : ~OutcomeOf(l.svc, n).ok

EveryCompletionFailed(l) ==
    /\ IssuedCompletions(l) # {}
    /\ \A n \in IssuedCompletions(l) : ~OutcomeOf(l.svc, n).ok

\* C1: a result returned by rewrite has a non-empty variants list, for every
\* query, strategy and service outcome; when every completion call failed the
\* variants are exactly [original].
C1_VariantsNeverEmpty ==
    (last.done /\ ~last.raised) =>
        /\ last.result.rewritten # <<>>
        /\ EveryCompletionFailed(last) => last.result.rewritten = <<last.query>>

\* C2: with a base strategy, when the single completion call raises, the
\* generator returns normally, with variants = [query] and the error field set
\* to the failure description.
C2_BaseFailureDegrades ==
    (last.done /\ strategy \in BaseStrategies /\ SomeCompletionFailed(last)) =>
        /\ ~last.raised
        /\ last.result.rewritten = <<last.query>>
        /\ last.result.has_error
        /\ last.result.error = ErrText

C2_Witness ==
    /\ last.done
    /\ strategy = "refinement"
    /\ last.calls = <<"refinement">>
    /\ ~last.svc.refine.ok
    /\ last.result.has_error

\* C3: with the hybrid strategy, whichever sub-strategy completion call fails,
\* rewrite does not raise to its caller.
C3_HybridAbsorbsFailure ==
    (last.done /\ strategy = "hybrid" /\ SomeCompletionFailed(last)) => ~last.raised

LastN(seq, n) == SubSeq(seq, Max2(1, Len(seq) - n + 1), Len(seq))

\* C4: after any sequence of rewrite calls the cache holds at most 100 entries,
\* and its keys are exactly the most recently stored keys, oldest first: every
\* store beyond 100 has dropped the oldest stored entry, whatever was hit since.
C4_CacheIsFifo ==
    /\ Len(query_cache) <= CacheLimit
    /\ cache_keys(query_cache) = LastN(inserted, CacheLimit)

\* 101 keys stored by 102 calls of an expansion rewriter (one call was a hit):
\* the first key is gone, the other 100 are present
C4_Witness ==
    /\ strategy = "expansion"
    /\ Len(inserted) = CacheLimit + 1
    /\ ncalls = CacheLimit + 2
    /\ ~cache_has(query_cache, inserted[1])
    /\ \A i \in 2..Len(inserted) : cache_has(query_cache, inserted[i])

\* C5: of two successive rewrite calls with identical query, context and
\* requested max_queries, the second is a cache hit: it returns the result of
\* the first and issues no service call.
C5_SecondCallHits ==
    [][(/\ last.done
        /\ ncalls' = ncalls + 1
        /\ last'.query = last.query
        /\ last'.context = last.context
        /\ last'.requested = last.requested)
       => (/\ last'.hit
           /\ ~last'.raised
           /\ last'.result = last.result
           /\ last'.calls = <<>>)]_vars

\* C14: whatever the strategy and the complexity of the query, a result that
\* rewrite returns has at most as many variants as the rewriter's max_queries
\* was when the call was made, the original counted.
C14_AtMostRequestedVariants ==
    (last.done /\ ~last.raised) => Len(last.result.rewritten) <= last.requested

\* C15: a request made through a second rewriter of the process, identical in
\* query, strategy, max_queries and context to one whose result the first
\* rewriter holds in its cache, is a cache hit.
C15_CacheSharedAcrossRewriters ==
    (/\ peer.ncalls > 0
     /\ last.done
     /\ peer.strategy = strategy
     /\ cache_has(query_cache,
                  _get_cache_key(last.query, last.context, peer.strategy, last.requested)))
        => last.hit

\* no two entries equal after lower() and strip()
PairwiseDistinct(rewritten) ==
    \A i, j \in 1..Len(rewritten) :
        i < j => strip(lower(rewritten[i])) # strip(lower(rewritten[j]))

\* C17: the variants of a result that rewrite returns are pairwise distinct
\* under case-insensitive, trimmed comparison, and so are the variants of
\* every result the cache holds, which is what a later cache hit returns.
C17_VariantsPairwiseDistinct ==
    /\ (last.done /\ ~last.raised) => PairwiseDistinct(last.result.rewritten)
    /\ \A i \in 1..Len(query_cache) : PairwiseDistinct(query_cache[i].value.rewritten)

\* the completion gave lines that differ in case only; the embedding call
\* failed, so what was removed are exact duplicates
C17_Witness ==
    /\ last.done /\ ~last.raised
    /\ strategy = "expansion"
    /\ last.svc.expand = Completion(TRUE, TextMany)
    /\ last.calls = <<"expansion", "embedding">>
    /\ ~last.svc.embed.ok
    /\ last.result.metadata.removed_duplicates > 0
    /\ Len(query_cache) = 1

\* the lines of a completion text that are not blank
NonEmptyLines(text) ==
    LET lines == split_lines(text)
    IN  Cardinality({i \in 1..Len(lines) : strip(lines[i]) # ""})

\* C18: with the expansion strategy, when the completion call succeeds and
\* its text has two or more non-empty lines, rewrite returns a result of
\* strategy "expansion" with more than one variant.
C18_ExpansionGivesSeveralVariants ==
    (/\ last.done
     /\ strategy = "expansion"
     /\ last.calls # <<>>
     /\ last.svc.expand.ok
     /\ NonEmptyLines(last.svc.expand.text) >= 2)
        => /\ ~last.raised
           /\ last.result.strategy = "expansion"
           /\ Len(last.result.rewritten) > 1

\* C19: under every interleaving of two rewrite calls on one rewriter no
\* statement that reads or writes the cache fails, and when both calls have
\* ended the cache holds at most 100 entries, which are the keys inserted
\* last, in insertion order: one eviction of the oldest entry for each
\* insertion beyond 100, and no other entry missing.
C19_CacheAccessSerialized ==
    /\ \A t \in Threads : ~th[t].raised
    /\ Quiet =>
           /\ Len(query_cache) <= CacheLimit
           /\ cache_keys(query_cache) = LastN(inserted, CacheLimit)

----------------------------------------------------------------------------
\* Properties of search_multiple

RECURSIVE Flatten(_)
Flatten(backend) ==
    IF backend = <<>> THEN <<>> ELSE Head(backend).hits \o Flatten(Tail(backend))

\* the hits the backend gave, in variant order then backend order
AllHits == IF fu.has_store THEN Flatten(fu.backend) ELSE <<>>

FirstWithContent(hits, c) ==
    hits[CHOOSE i \in 1..Len(hits) :
             /\ hits[i].content = c
             /\ \A j \in 1..(i - 1) : hits[j].content # c]

\* C6: with deduplication, the list search_multiple returns has exactly one
\* entry for each content among the hits of all variants, that entry is the
\* first hit with the content (variant order, then backend order), whatever
\* the score of the later ones, and it has no entry of another content.
C6_FirstSeenPerContent ==
    (fu.done /\ ~fu.raised /\ fu.deduplicate) =>
        /\ \A i \in 1..Len(AllHits) :
               LET c == AllHits[i].content
                   at == {k \in 1..Len(fu.results) : fu.results[k].content = c}
               IN  /\ Cardinality(at) = 1
                   /\ \A k \in at : fu.results[k] = FirstWithContent(AllHits, c)
        /\ \A k \in 1..Len(fu.results) :
               \E i \in 1..Len(AllHits) : AllHits[i].content = fu.results[k].content

\* the second variant finds "doc a" again with a higher score; the first stays
C6_Witness ==
    /\ fu.done /\ ~fu.raised /\ fu.deduplicate /\ fu.has_store
    /\ Len(fu.backend) = 2
    /\ fu.backend[1].hits = <<Hit("doc b", 2), Hit("doc a", 2)>>
    /\ fu.backend[2].hits = <<Hit("doc a", 5)>>
    /\ fu.results = <<Hit("doc b", 2), Hit("doc a", 2)>>

SomeVariantFails == \E n \in 1..Len(fu.backend) : ~fu.backend[n].ok
SomeVariantAnswers == \E n \in 1..Len(fu.backend) : fu.backend[n].ok
EveryVariantFails == \A n \in 1..Len(fu.backend) : ~fu.backend[n].ok

\* the backend with every failure replaced by an answer of no hits
FailuresAsEmpty ==
    [n \in 1..Len(fu.backend) |->
        IF fu.backend[n].ok THEN fu.backend[n] ELSE [ok |-> TRUE, hits |-> <<>>]]

\* C7: when the backend fails for one variant and answers for another,
\* search_multiple does not raise and returns the fused hits of the variants
\* that were answered, as if the failing variant had no hits.
C7_FailedVariantCountsAsEmpty ==
    (fu.done /\ fu.has_store /\ SomeVariantFails /\ SomeVariantAnswers) =>
        /\ ~fu.raised
        /\ fu.results = search_multiple(TRUE, FailuresAsEmpty, fu.deduplicate).results

\* C8: when the backend fails for every variant of a non-empty list,
\* search_multiple raises; it does not return a list.
C8_TotalFailureRaises ==
    (fu.done /\ fu.has_store /\ fu.backend # <<>> /\ EveryVariantFails) => fu.raised

C8_Witness ==
    /\ fu.done /\ fu.has_store /\ Len(fu.backend) = 2 /\ EveryVariantFails
    /\ fu.raised /\ fu.searched = 1

Occurrences(seq, x) == Cardinality({i \in 1..Len(seq) : seq[i] = x})

\* C16: the list search_multiple returns is in order of non-increasing score
\* from its first entry to its last, across the variants that found the
\* entries; without deduplication it holds every hit of every variant, as
\* often as the backend gave it.
C16_SortedByScore ==
    (fu.done /\ ~fu.raised) =>
        /\ \A i, j \in 1..Len(fu.results) :
               i < j => fu.results[i].score >= fu.results[j].score
        /\ ~fu.deduplicate =>
               /\ Len(fu.results) = Len(AllHits)
               /\ \A h \in Hits : Occurrences(fu.results, h) = Occurrences(AllHits, h)

\* the best hit is found by the second variant and comes first in the list
C16_Witness ==
    /\ fu.done /\ ~fu.raised /\ fu.has_store /\ ~fu.deduplicate
    /\ Len(fu.backend) = 2
    /\ fu.backend[1].hits = <<Hit("doc b", 2), Hit("doc a", 2)>>
    /\ fu.backend[2].hits = <<Hit("doc a", 5), Hit("doc a", 2)>>
    /\ fu.results = <<Hit("doc a", 5), Hit("doc b", 2), Hit("doc a", 2), Hit("doc a", 2)>>

----------------------------------------------------------------------------
\* Properties of _deduplicate_queries

NormalForm(q) == strip(lower(q))

\* the first occurrence of each variant under NormalForm, in the input's order
FirstOccurrences(input) ==
    LET idx == {i \in 1..Len(input) :
                   \A j \in 1..(i - 1) : NormalForm(input[j]) # NormalForm(input[i])}
        nth(k) == CHOOSE i \in idx : Cardinality({j \in idx : j < i}) = k - 1
    IN  [k \in 1..Cardinality(idx) |-> input[nth(k)]]

\* cosine similarity > 0.95 between the vectors of the i-th and j-th variant
\* that the exact step leaves
SimilarPair(i, j) ==
    /\ i < j
    /\ dd.embedding.ok
    /\ TooSimilar(dd.embedding.vecs[i], dd.embedding.vecs[j])

LongerOf(u, i, j) == IF Len(u[i]) > Len(u[j]) THEN i ELSE j
OtherOf(u, i, j) == IF LongerOf(u, i, j) = i THEN j ELSE i

\* C9: of two variants that are not exact duplicates and whose cosine
\* similarity is above 0.95, the longer one is missing from the output, the
\* second one when the lengths are equal; the other one is in the output,
\* unless it is itself the one removed for another similar pair, and it is the
\* whole output when the two are the only variants; a variant that is in no
\* similar pair is in the output.
C9_LongerOfSimilarPairRemoved ==
    dd.done =>
        LET u == FirstOccurrences(dd.input)
            I == 1..Len(u)
        IN  /\ \A i, j \in I : SimilarPair(i, j) =>
                   /\ u[LongerOf(u, i, j)] \notin Range(dd.output)
                   /\ (\A k, l \in I : SimilarPair(k, l) =>
                                          LongerOf(u, k, l) # OtherOf(u, i, j))
                          => u[OtherOf(u, i, j)] \in Range(dd.output)
                   /\ Len(u) = 2 => dd.output = <<u[OtherOf(u, i, j)]>>
            /\ \A i \in I :
                   (\A j \in I : ~SimilarPair(i, j) /\ ~SimilarPair(j, i))
                       => u[i] \in Range(dd.output)

\* the longer variant comes first and is the one removed; with equal lengths
\* the second goes; at exactly 0.95 both stay
C9_Witness ==
    /\ dd.done /\ dd.called /\ dd.embedding.ok
    /\ \/ /\ dd.input = <<"find all cats", "find cats">>
          /\ dd.embedding.vecs = << <<1, 0, 0, 0, 0>>, <<4, 1, 0, 0, 0>> >>
          /\ dd.output = <<"find cats">>
       \/ /\ dd.input = <<"find cats", "find dogs">>
          /\ dd.embedding.vecs = << <<4, 1, 0, 0, 0>>, <<2, 1, 0, 0, 0>> >>
          /\ dd.output = <<"find cats">>

RECURSIVE IsSubsequence(_, _)
IsSubsequence(a, b) ==
    IF a = <<>> THEN TRUE
    ELSE IF b = <<>> THEN FALSE
    ELSE IF Head(a) = Head(b) THEN IsSubsequence(Tail(a), Tail(b))
    ELSE IsSubsequence(a, Tail(b))

NoSimilarPair ==
    \A i, j \in 1..Len(FirstOccurrences(dd.input)) : ~SimilarPair(i, j)

\* C10: the output is an order-preserving subsequence of the input, made of
\* first occurrences under case-insensitive, trimmed comparison only; when no
\* two variants are similar it is exactly the first occurrences in the input's order.
C10_ExactStepKeepsFirstOccurrence ==
    dd.done =>
        /\ IsSubsequence(dd.output, dd.input)
        /\ IsSubsequence(dd.output, FirstOccurrences(dd.input))
        /\ NoSimilarPair => dd.output = FirstOccurrences(dd.input)

C10_Witness ==
    /\ dd.done /\ ~dd.embedding.ok
    /\ dd.input = <<"Find Cats ", "find dogs", "find cats">>
    /\ dd.output = <<"Find Cats ", "find dogs">>

\* C11: when the embedding call fails, _deduplicate_queries still returns, and
\* what it returns is the input with the case-insensitive exact duplicates
\* removed and nothing else: every first occurrence, in the input's order.
C11_EmbeddingFailureKeepsExactStep ==
    (dd.done /\ ~dd.embedding.ok) =>
        /\ dd.output = FirstOccurrences(dd.input)
        /\ \A i \in 1..Len(dd.input) :
               \E k \in 1..Len(dd.output) :
                   NormalForm(dd.output[k]) = NormalForm(dd.input[i])

\* the embedding call was made and failed; only the exact duplicate is gone
C11_Witness ==
    /\ dd.done /\ dd.called /\ ~dd.embedding.ok
    /\ dd.input = <<"find all cats", "find cats", "Find Cats ">>
    /\ dd.output = <<"find all cats", "find cats">>

----------------------------------------------------------------------------
\* Properties of _determine_query_complexity

NoMultiQuestionMarker(text) == text.marks <= 1 /\ ~text.conjunction

\* C12: a query of at most 5 words with at most one question mark and no
\* " y " / " o " is classified simple; a query of more than 15 words is
\* classified complex; asking a query again gives the answer it got before.
C12_SimpleAndLongQueries ==
    cx.count >= 1 =>
        /\ (cx.text.nwords <= 5 /\ NoMultiQuestionMarker(cx.text))
               => cx.complexity = "simple"
        /\ cx.text.nwords > 15 => cx.complexity = "complex"
        /\ cx.query = cx.first_query => cx.complexity = cx.first_complexity

\* five words, one of them after a tab, asked a second time after another query
C12_Witness ==
    /\ cx.count = 3
    /\ cx.query = cx.first_query
    /\ cx.query = "plan plan plan plan\tmas  "
    /\ cx.complexity = "simple"

\* C13 as stated: a query with a comparison word, more than one question mark
\* or a " y " / " o " is classified complex whatever its word count, and
\* medium is returned only when neither the simple nor the complex rule applies.
C13_ComplexWhateverWordCount ==
    cx.count >= 1 =>
        /\ (cx.text.comparison \/ ~NoMultiQuestionMarker(cx.text))
               => cx.complexity = "complex"
        /\ cx.complexity = "medium"
               => /\ ~(cx.text.nwords <= 5 /\ NoMultiQuestionMarker(cx.text))
                  /\ ~(cx.text.nwords > 15 \/ cx.text.comparison
                          \/ ~NoMultiQuestionMarker(cx.text))

\* C13 amended: the simple rule is tried first. A query with more than one
\* question mark or a " y " / " o " is complex whatever its word count; a query
\* with a comparison word is complex when it has more than 5 words and simple
\* when it has at most 5 words and no multi-question marker; medium is
\* returned exactly when neither rule applies.
C13_SimpleRuleFirst ==
    cx.count >= 1 =>
        /\ ~NoMultiQuestionMarker(cx.text) => cx.complexity = "complex"
        /\ (cx.text.comparison /\ cx.text.nwords > 5) => cx.complexity = "complex"
        /\ (cx.text.comparison /\ cx.text.nwords <= 5 /\ NoMultiQuestionMarker(cx.text))
               => cx.complexity = "simple"
        /\ cx.complexity = "medium"
               <=> /\ cx.text.nwords > 5 /\ cx.text.nwords <= 15
                   /\ NoMultiQuestionMarker(cx.text)
                   /\ ~cx.text.comparison

\* three words, one of them "vs": simple; seven words with "Mejor": complex
C13_Witness ==
    /\ cx.count = 1
    /\ \/ cx.query = "plan vs otro" /\ cx.complexity = "simple"
       \/ cx.query = Filler(6) \o " Mejor" /\ cx.complexity = "complex"

----------------------------------------------------------------------------
\* Properties of the hybrid strategy

\* the lines of a completion text that make a sub-query or a variation
LongLines(text) == strip_and_keep_long(split_lines(strip(text)))

HybridComplexCall ==
    /\ last.done /\ ~last.hit
    /\ strategy = "hybrid"
    /\ _determine_query_complexity(last.query) = "complex"

Decomposed ==
    /\ "decomposition" \in Range(last.calls)
    /\ last.svc.decompose.ok
    /\ Len(LongLines(last.svc.decompose.text)) >= 2

----------------------------------------------------------------------------
\* Properties of the simple and medium branches of the hybrid strategy

HybridSimpleCall ==
    /\ last.done /\ ~last.hit
    /\ strategy = "hybrid"
    /\ _determine_query_complexity(last.query) = "simple"

\* the string the refinement call of the latest rewrite call gave its caller
RefinedOf(l) == _refine_query(l.query, l.svc.refine).rewritten[1]

\* what the expansion call of the latest rewrite call returned, asked about
\* query with the budget maxq
ExpansionOf(l, query, maxq) ==
    IF l.svc.expand.ok THEN <<query>> \o Take(LongLines(l.svc.expand.text), maxq)
    ELSE <<query>>

RECURSIVE StrippedLong(_)
StrippedLong(list) ==
    IF list = <<>> THEN <<>>
    ELSE (IF Len(strip(Head(list))) > MinQueryChars THEN <<strip(Head(list))>> ELSE <<>>)
             \o StrippedLong(Tail(list))

\* a list after the closing steps of the hybrid strategy: the entries longer
\* than 10 characters, trimmed, one for each spelling, at most cap of them
AfterClosingSteps(list, cap) == Take(FirstOccurrences(StrippedLong(list)), cap)

\* the embedding call, if made, found no two variants similar
NothingSimilar(l) == l.svc.embed \in {NoEmbed, EmbedFailure, EmbedDistinct}

C22_SimpleRefinementOnly ==
    HybridSimpleCall =>
        /\ strategy_names(last.invoked) = <<"refinement">>
        /\ ~last.raised
        /\ Len(last.result.rewritten) <= 2
        /\ IsSubsequence(last.result.rewritten,
                         <<strip(last.query), strip(RefinedOf(last))>>)

\* C22 amended: for a simple query the hybrid strategy makes the refinement
\* call first and never a decomposition call; it makes an expansion call as
\* well exactly when the refinement left the query as it was (it failed, or
\* gave the query back, or gave nothing).  At most two variants are returned:
\* taken from [query, refined] when only the refinement was called, and from
\* the query and the first line of the expansion otherwise.
C22_SimpleRefinesThenMayExpand ==
    HybridSimpleCall =>
        /\ ~last.raised
        /\ strategy_names(last.invoked) \in {<<"refinement">>, <<"refinement", "expansion">>}
        /\ "expansion" \in Range(last.calls) <=> RefinedOf(last) = last.query
        /\ Len(last.result.rewritten) <= 2
        /\ IsSubsequence(last.result.rewritten,
               IF "expansion" \in Range(last.calls)
               THEN <<strip(last.query)>> \o Take(LongLines(last.svc.expand.text), 1)
               ELSE <<strip(last.query), strip(RefinedOf(last))>>)

\* the refinement gave the query back; the expansion was called and its first
\* line is the second variant
C22_Witness ==
    /\ HybridSimpleCall
    /\ last.query = QSimple
    /\ last.svc.refine = Completion(TRUE, QSimple)
    /\ last.svc.expand = Completion(TRUE, TextTwo)
    /\ last.calls = <<"refinement", "expansion", "embedding">>
    /\ last.result.rewritten = <<QSimple, "cobertura hospital plan norte">>

----------------------------------------------------------------------------
\* Properties of the complex branch when the query was not decomposed

\* the decomposition call answered, with fewer than two sub-queries
NotDecomposed ==
    /\ "decomposition" \in Range(last.calls)
    /\ last.svc.decompose.ok
    /\ Len(LongLines(last.svc.decompose.text)) < 2

\* the budget of the expansion call is budget and its query is the refined one
ExpandsRefinedWith(budget) ==
    /\ ~last.raised
    /\ strategy_names(last.invoked) = <<"decomposition", "refinement", "expansion">>
    /\ last.invoked[2].query = last.query
    /\ last.invoked[3] = Invocation("expansion", RefinedOf(last), budget)

\* C23 as stated: in the complex branch, when the query was not decomposed,
\* the expansion is called on the refined query with a budget of
\* max(2, requested - 1), requested being max_queries as the caller set it,
\* whatever its value.
C23_BudgetFromRequested ==
    (HybridComplexCall /\ NotDecomposed) =>
        ExpandsRefinedWith(Max2(2, last.requested - 1))

\* C23 amended: in the complex branch, when the decomposition call answered
\* with fewer than two sub-queries, the refinement is called on the query and
\* then the expansion on the refined query, with a budget of max(2, m - 1),
\* where m = min(5, max(3, requested)) is the budget rewrite gives a complex
\* query: 2 for a requested 3 or less, requested - 1 for 4 and 5, and 4 for
\* every requested value above 5.  When the decomposition call failed no
\* refinement or expansion call is made.
C23_BudgetFromAdjusted ==
    HybridComplexCall =>
        /\ NotDecomposed =>
               /\ ExpandsRefinedWith(Max2(2, Min2(5, Max2(3, last.requested)) - 1))
               /\ last.requested <= 3 => last.invoked[3].max_queries = 2
               /\ last.requested > 5 => last.invoked[3].max_queries = 4
        /\ ~last.svc.decompose.ok => strategy_names(last.invoked) = <<"decomposition">>

\* requested 6: the expansion is asked for 4 variations of the refined query
C23_Witness ==
    /\ HybridComplexCall /\ NotDecomposed
    /\ last.requested = 6
    /\ last.svc.refine = Completion(TRUE, TextQuoted)
    /\ last.invoked[3] = Invocation("expansion", "cobertura hospital plan de salud", 4)
    /\ last.svc.expand = Completion(TRUE, TextMany)
    /\ NothingSimilar(last)
    /\ Len(last.result.rewritten) = 5

----------------------------------------------------------------------------
\* Properties of the medium branch

HybridMediumCall ==
    /\ last.done /\ ~last.hit
    /\ strategy = "hybrid"
    /\ _determine_query_complexity(last.query) = "medium"

\* the refined string differs from the query and has at least 70% of its length
AtLeast70Percent(l) ==
    /\ RefinedOf(l) # l.query
    /\ 10 * Len(RefinedOf(l)) >= 7 * Len(l.query)

\* C24: for a medium query the hybrid strategy calls the refinement and then
\* the expansion; the expansion is called on the refined string exactly when
\* that string differs from the query and has at least 70% of the query's
\* length, a length of exactly 70% included; otherwise it is called on the
\* query with the whole max_queries of the caller as its budget, and the
\* variants returned are what it returned, after the steps that follow the branch.
C24_ExpandsRefinedFrom70Percent ==
    HybridMediumCall =>
        /\ ~last.raised
        /\ strategy_names(last.invoked) = <<"refinement", "expansion">>
        /\ IF AtLeast70Percent(last)
           THEN last.invoked[2].query = RefinedOf(last)
           ELSE /\ last.invoked[2] = Invocation("expansion", last.query, last.requested)
                /\ IsSubsequence(last.result.rewritten,
                       AfterClosingSteps(ExpansionOf(last, last.query, last.requested),
                                         last.requested))

----------------------------------------------------------------------------
\* Properties of the diagnostics and of max_queries

\* C25: in a result of the hybrid strategy, strategies_applied names the
\* sub-strategies whose completion call was made during that rewrite call:
\* none that was not called, and every one that was.
C25_StrategiesAppliedAreInvoked ==
    (last.done /\ ~last.hit /\ ~last.raised /\ strategy = "hybrid") =>
        Range(last.result.metadata.strategies_applied)
            = Range(strategy_names(last.invoked))

\* C26: when a rewrite call has ended, by a return from the cache, by a
\* return of a new result or by an exception, max_queries is what it was when
\* the call was made, whatever values the call gave it on the way.
C26_MaxQueriesRestored ==
    /\ [](last.done => max_queries = last.requested)
    /\ [][ncalls' = ncalls + 1 => max_queries' = max_queries]_vars

\* max_queries 6, a complex query: the decomposition was called with
\* max_queries at 5, it failed, rewrite raised, and max_queries is 6 again
C26_Witness ==
    /\ last.done /\ last.raised
    /\ last.requested = 6
    /\ last.invoked = <<Invocation("decomposition", QComplex, 5)>>
    /\ max_queries = 6

\* C27: two rewrite calls that run at the same time on one rewriter touch no
\* shared state but the cache.  Under every interleaving the cache key of each
\* call is made from its own query and the max_queries the rewriter was
\* configured with, the budget its strategy runs with is the adjustment of
\* that configured value for its own query, and when both calls have ended
\* max_queries is the configured value again.
C27_CallsShareOnlyTheCache ==
    /\ \A t \in Threads :
           /\ th[t].pc # "idle" =>
                  th[t].cache_key =
                      _get_cache_key(th[t].query, "None", strategy, DefaultMaxQueries)
           /\ th[t].budget # 0 =>
                  th[t].budget = _adjust_max_queries(th[t].query, DefaultMaxQueries)
    /\ (\A t \in Threads : th[t].pc = "done") => max_queries = DefaultMaxQueries

----------------------------------------------------------------------------
\* Properties of the cache and degraded results

\* the cache key of a rewrite call as the record of the call tells it
KeyOf(l) == _get_cache_key(l.query, l.context, strategy, l.requested)

\* C28: a result with the error field set (a base strategy whose completion
\* call failed) is stored in the cache as any other result is; as long as the
\* entry is in the cache, a rewrite call with the same query, context and
\* max_queries returns that stored result and makes no service call.
C28_DegradedResultIsCached ==
    /\ []((last.done /\ ~last.hit /\ ~last.raised /\ last.result.has_error) =>
              /\ cache_has(query_cache, KeyOf(last))
              /\ cache_get(query_cache, KeyOf(last)) = last.result)
    /\ [][(/\ ncalls' = ncalls + 1
           /\ cache_has(query_cache, KeyOf(last'))
           /\ cache_get(query_cache, KeyOf(last')).has_error)
          => (/\ last'.hit
              /\ ~last'.raised
              /\ last'.calls = <<>>
              /\ last'.result = cache_get(query_cache, KeyOf(last'))
              /\ query_cache' = query_cache)]_vars

\* the second of two equal calls after the warm-up: the stored result of the
\* failed first call is returned and no service call is made
C28_Witness ==
    /\ last.done /\ last.hit
    /\ strategy = "expansion"
    /\ last.query = QComplex
    /\ last.calls = <<>>
    /\ last.result.has_error
    /\ last.result.error = ErrText
    /\ last.result.rewritten = <<QComplex>>
    /\ ncalls = WarmUp + 2

----------------------------------------------------------------------------
\* Properties of the expansion strategy under deduplication

ExpansionCall ==
    /\ last.done /\ ~last.hit /\ ~last.raised
    /\ strategy = "expansion"

\* the list the expansion gave to the deduplication, after its exact step
ExpandedUnique(l) ==
    FirstOccurrences(ExpansionOf(l, l.query, l.invoked[1].max_queries))

\* some variant after the original is shorter than it and too similar to it
ShorterSimilarVariant(l) ==
    LET u == ExpandedUnique(l)
    IN  /\ "embedding" \in Range(l.calls)
        /\ l.svc.embed.ok
        /\ \E j \in 2..Len(u) :
               /\ Len(u[j]) < Len(u[1])
               /\ TooSimilar(l.svc.embed.vecs[1], l.svc.embed.vecs[j])

\* C29 as stated: the variants of a result of the expansion strategy begin
\* with the original query, also when the exact and the semantic step of the
\* deduplication have removed entries.
C29_OriginalStaysFirst ==
    ExpansionCall =>
        /\ last.result.rewritten # <<>>
        /\ Head(last.result.rewritten) = last.query

\* C29 amended: the variants of a result of the expansion strategy begin with
\* the original query unless the semantic step of the deduplication removed
\* it, which it does exactly when a later variant that is strictly shorter
\* than the original has a cosine similarity above 0.95 with it; the variants
\* then begin with a generated variation.  The exact step never removes the
\* original, and neither step leaves the list empty.
C29_OriginalFirstUnlessShorterSimilar ==
    ExpansionCall =>
        /\ last.result.rewritten # <<>>
        /\ Head(last.result.rewritten) = last.query <=> ~ShorterSimilarVariant(last)
        /\ ~ShorterSimilarVariant(last) =>
               IsSubsequence(last.result.rewritten, ExpandedUnique(last))
        /\ ShorterSimilarVariant(last) =>
               IsSubsequence(last.result.rewritten, Tail(ExpandedUnique(last)))

\* the original has 30 characters and the two variations 29 and 25; the three
\* embeddings are equal, and the 25-character variation is all that is left
C29_Witness ==
    /\ ExpansionCall
    /\ last.query = QMedium
    /\ last.svc.expand = Completion(TRUE, TextTwo)
    /\ last.svc.embed = EmbedSame
    /\ last.calls = <<"expansion", "embedding">>
    /\ last.result.rewritten = <<"deducible copago plan sur">>

----------------------------------------------------------------------------
\* Properties of the semantic step: which variants it removes

\* the k-th variant that the exact step leaves is missing from the output
Removed(k) == FirstOccurrences(dd.input)[k] \notin Range(dd.output)

Similar(k, p) == SimilarPair(k, p) \/ SimilarPair(p, k)

\* p is a partner of k in a similar pair for which k is the one marked
MarkedBy(k, p) ==
    LET u == FirstOccurrences(dd.input)
    IN  \/ SimilarPair(k, p) /\ Len(u[k]) > Len(u[p])
        \/ SimilarPair(p, k) /\ Len(u[k]) >= Len(u[p])

\* C30 as stated: the semantic step removes a variant only if it is too similar
\* to a variant that is in the output, so never only because of a partner
\* that is itself removed, and a non-empty input gives a non-empty output.
C30_RemovedOnlyForSurvivor ==
    dd.done =>
        LET I == 1..Len(FirstOccurrences(dd.input))
        IN  /\ \A k \in I : Removed(k) => \E p \in I : Similar(k, p) /\ ~Removed(p)
            /\ dd.input # <<>> => dd.output # <<>>

\* C30 amended: the semantic step removes a variant exactly when it is the
\* longer member, the second one on equal lengths, of some pair with cosine
\* similarity above 0.95, whether or not the other member of that pair stays
\* in the output: in a chain a~b, b~c the variant c can be removed for b alone
\* while b is removed for a.  A non-empty input gives a non-empty output.
C30_RemovedForAnyShorterPartner ==
    dd.done =>
        LET I == 1..Len(FirstOccurrences(dd.input))
        IN  /\ \A k \in I : Removed(k) <=> \E p \in I : MarkedBy(k, p)
            /\ dd.input # <<>> => dd.output # <<>>

\* the chain: the second variant goes for the first (equal lengths), the third
\* for the second (longer), and the third is not similar to the first
C30_Witness ==
    /\ dd.done /\ dd.called /\ dd.embedding.ok
    /\ dd.input = <<"find cats", "find dogs", "find all cats">>
    /\ dd.embedding.vecs = << <<1, 0, 0, 0, 0>>, <<4, 1, 0, 0, 0>>, <<2, 1, 0, 0, 0>> >>
    /\ Similar(1, 2) /\ Similar(2, 3) /\ ~Similar(1, 3)
    /\ dd.output = <<"find cats">>

====
